---- MODULE Spec2Model ----
(***************************************************************************)
(* Model of the algae linear-algebra library: TVector<T, N> (vector.rs)    *)
(* and TMatrix<T, M, N> (matrix.rs).                                       *)
(*                                                                         *)
(* The library is a set of pure functions over value types.  The state of  *)
(* the model is one call of the library: the operation called (op), its    *)
(* type parameters and operands (args) and what the call produced (out):   *)
(* a value, or a panic (the trap of an out-of-bounds array access or of    *)
(* the element type's own operator).                                       *)
(*                                                                         *)
(* The element type T is modelled as the integers (Rust integer            *)
(* semantics: truncating division, division by zero panics).  Arrays are   *)
(* 0-based functions, as in the source.                                    *)
(***************************************************************************)
EXTENDS Integers, Sequences, FiniteSets, TLC

VARIABLES op, args, out

vars == <<op, args, out>>

(***************************************************************************)
(* Bounds of the model.                                                    *)
(***************************************************************************)
\* dimensions M, N, L of the generic operations range over 1..MaxDim
MaxDim == 3
\* scalar parameters of the input families range over -MaxVal..MaxVal
MaxVal == 1

Dims == 1..MaxDim
Vals == (0 - MaxVal)..MaxVal

(***************************************************************************)
(* Results of a call.                                                      *)
(***************************************************************************)
Ok(v) == [trap |-> FALSE, val |-> v]
Trap == [trap |-> TRUE]

(***************************************************************************)
(* Arrays and slices: 0-based.                                             *)
(***************************************************************************)
\* a Rust array/slice literal [x0, x1, ...]
Arr0(s) == [i \in 0..(Len(s) - 1) |-> s[i + 1]]
\* slice.len()
ALen(a) == Cardinality(DOMAIN a)
\* core::array::from_fn::<_, n, _>(F) is written [i \in Range(n) |-> F(i)]
Range(n) == 0..(n - 1)

\* Iterator::sum for an integer T: fold from T::zero() in ascending index order
RECURSIVE SumFrom(_, _, _)
SumFrom(a, k, acc) == IF k >= ALen(a) THEN acc ELSE SumFrom(a, k + 1, acc + a[k])
IterSum(a) == SumFrom(a, 0, 0)

(***************************************************************************)
(* The closures handed to element_wise, named by the operator they apply.  *)
(***************************************************************************)
Abs(x) == IF x < 0 THEN 0 - x ELSE x
\* integer division truncates toward zero; a zero divisor panics before a
\* quotient is computed (see vec_div)
ScalarDiv(a, b) ==
    IF b = 0 THEN 0
    ELSE IF (a < 0) = (b < 0) THEN Abs(a) \div Abs(b)
         ELSE 0 - (Abs(a) \div Abs(b))
\* f(a, b) for the closure f
Apply(f, a, b) ==
    CASE f = "add" -> a + b
      [] f = "sub" -> a - b
      [] f = "mul" -> a * b
      [] f = "div" -> ScalarDiv(a, b)

(***************************************************************************)
(* vector.rs                                                               *)
(***************************************************************************)
\* struct TVector<T, const N: usize> { data: [T; N] }
TVector(n, d) == [N |-> n, data |-> d]

TVector2_new(e0, e1) == TVector(2, Arr0(<<e0, e1>>))
TVector3_new(e0, e1, e2) == TVector(3, Arr0(<<e0, e1, e2>>))
TVector4_new(e0, e1, e2, e3) == TVector(4, Arr0(<<e0, e1, e2, e3>>))

vec_element_wise_first(a, b, f) ==
    TVector(a.N, [i \in Range(a.N) |-> Apply(f, a.data[i], b.data[0])])
vec_element_wise(a, b, f) ==
    TVector(a.N, [i \in Range(a.N) |-> Apply(f, a.data[i], b.data[i])])

vec_zero(n) == TVector(n, [i \in Range(n) |-> 0])

vec_is_zero_any(v) == \E i \in DOMAIN v.data : v.data[i] = 0
vec_is_zero(v) == \A i \in DOMAIN v.data : v.data[i] = 0

vec_add(a, b) == Ok(vec_element_wise(a, b, "add"))
vec_sub_swapped(a, b) == Ok(vec_element_wise(b, a, "sub"))
vec_sub(a, b) == Ok(vec_element_wise(a, b, "sub"))
vec_mul(a, b) == Ok(vec_element_wise(a, b, "mul"))
\* a / b panics in the closure when an integer divisor is zero
vec_div(a, b) ==
    IF \E i \in Range(a.N) : b.data[i] = 0 THEN Trap
    ELSE Ok(vec_element_wise(a, b, "div"))

\* &self.data[ind]: the array access is bounds-checked
vec_index_wrapping(v, ind) == Ok(v.data[ind % v.N])
vec_index(v, ind) == IF ind < v.N THEN Ok(v.data[ind]) ELSE Trap

(***************************************************************************)
(* matrix.rs                                                               *)
(***************************************************************************)
\* struct TMatrix<T, const M: usize, const N: usize> { data: [[T; M]; N] }:
\* N columns of M elements, data[column][row]
TMatrix(m, n, d) == [M |-> m, N |-> n, data |-> d]

TMatrix2_new_untransposed(e0, e1, e2, e3) ==
    TMatrix(2, 2, Arr0(<<Arr0(<<e0, e1>>),
                         Arr0(<<e2, e3>>)>>))
TMatrix2_new(e0, e1, e2, e3) ==
    TMatrix(2, 2, Arr0(<<Arr0(<<e0, e2>>),
                         Arr0(<<e1, e3>>)>>))

TMatrix3_new(e0, e1, e2, e3, e4, e5, e6, e7, e8) ==
    TMatrix(3, 3, Arr0(<<Arr0(<<e0, e3, e6>>),
                         Arr0(<<e1, e4, e7>>),
                         Arr0(<<e2, e5, e8>>)>>))

TMatrix4_new(e0, e1, e2, e3, e4, e5, e6, e7, e8, e9, e10, e11, e12, e13, e14, e15) ==
    TMatrix(4, 4, Arr0(<<Arr0(<<e0, e4, e8, e12>>),
                         Arr0(<<e1, e5, e9, e13>>),
                         Arr0(<<e2, e6, e10, e14>>),
                         Arr0(<<e3, e7, e11, e15>>)>>))

\* arr[j * N + i] is a bounds-checked slice access: one index past the end
\* of arr panics
from_array_column_major(m, n, arr) ==
    IF \E i \in Range(n), j \in Range(m) : i * m + j >= ALen(arr) THEN Trap
    ELSE Ok(TMatrix(m, n, [i \in Range(n) |-> [j \in Range(m) |-> arr[i * m + j]]]))
from_array_zero_filled(m, n, arr) ==
    Ok(TMatrix(m, n, [i \in Range(n) |-> [j \in Range(m) |->
        IF j * n + i >= ALen(arr) THEN 0 ELSE arr[j * n + i]]]))
from_array(m, n, arr) ==
    IF \E i \in Range(n), j \in Range(m) : j * n + i >= ALen(arr) THEN Trap
    ELSE Ok(TMatrix(m, n, [i \in Range(n) |-> [j \in Range(m) |-> arr[j * n + i]]]))

mat_element_wise(a, b, f) ==
    TMatrix(a.M, a.N, [i \in Range(a.N) |-> [j \in Range(a.M) |->
        Apply(f, a.data[i][j], b.data[i][j])]])

mat_add(a, b) == Ok(mat_element_wise(a, b, "add"))
mat_sub(a, b) == Ok(mat_element_wise(a, b, "sub"))

\* &self.data[ind0][ind1]: data holds N arrays of M elements, and both
\* accesses are bounds-checked
mat_index_row_col(m, ind0, ind1) ==
    IF ind0 < m.M /\ ind1 < m.N THEN Ok(m.data[ind1][ind0]) ELSE Trap
mat_index(m, ind0, ind1) ==
    IF ind0 < m.N /\ ind1 < m.M THEN Ok(m.data[ind0][ind1]) ELSE Trap

\* TMatrix<T, M, N> * TVector<T, N> -> TVector<T, M>
mat_mul_vec_short(m, v) ==
    Ok(TVector(m.M, [i \in Range(m.M) |->
        IterSum([j \in Range(m.N - 1) |-> m.data[j][i] * v.data[j]])]))
mat_mul_vec(m, v) ==
    Ok(TVector(m.M, [i \in Range(m.M) |->
        IterSum([j \in Range(m.N) |-> m.data[j][i] * v.data[j]])]))

\* TMatrix<T, L, M> * TMatrix<T, M, N> -> TMatrix<T, L, N>
mat_mul_mat_short(a, b) ==
    Ok(TMatrix(a.M, b.N, [i \in Range(b.N) |-> [j \in Range(a.M) |->
        IterSum([k \in Range(a.N - 1) |-> a.data[k][j] * b.data[i][k]])]]))
mat_mul_mat(a, b) ==
    Ok(TMatrix(a.M, b.N, [i \in Range(b.N) |-> [j \in Range(a.M) |->
        IterSum([k \in Range(a.N) |-> a.data[k][j] * b.data[i][k]])]]))

(***************************************************************************)
(* Inputs.  A flat input of a given length is drawn from: the affine       *)
(* sequences s, s+t, s+2t, ... (all elements distinct when t # 0, constant *)
(* and possibly zero when t = 0), the sequences with one non-zero element, *)
(* and the operands of the repository's own tests.                         *)
(***************************************************************************)
Affine(len) == {[k \in Range(len) |-> s + t * k] : s \in Vals, t \in Vals}
OneHot(len) == {[k \in Range(len) |-> IF k = p THEN v ELSE 0] : p \in Range(len), v \in Vals}
Fixtures ==
    {Arr0(<<1, 2>>), Arr0(<<4, 5>>), Arr0(<<5, 6>>), Arr0(<<7, 8>>),
     Arr0(<<1, 3, 4>>), Arr0(<<3, 2, 1>>), Arr0(<<1, 4, 5>>), Arr0(<<4, 5, 6>>),
     Arr0(<<1, 2, 3, 4>>), Arr0(<<5, 6, 7, 8>>),
     Arr0(<<1, 2, 3, 4, 5, 6>>), Arr0(<<7, 8, 9, 10, 11, 12>>)}
Inputs(len) == Affine(len) \cup OneHot(len) \cup {f \in Fixtures : ALen(f) = len}

\* the fixed-arity constructors exist for these sizes only
NewSizes == {2, 3, 4}

\* the M x N matrix a caller builds from the row-major values arr
MatOf(m, n, arr) == from_array(m, n, arr).val

(***************************************************************************)
(* The calls.                                                              *)
(***************************************************************************)
\* no call is in progress: the caller is free to make one
Idle == op = "none"

Init ==
    /\ op = "none"
    /\ args = [N |-> 0]
    /\ out = Ok(0)

CallVecNew ==
    /\ Idle
    /\ \E n \in NewSizes : \E e \in Inputs(n) :
        /\ op' = "vec_new"
        /\ args' = [N |-> n, e |-> e]
        /\ out' = Ok(CASE n = 2 -> TVector2_new(e[0], e[1])
                       [] n = 3 -> TVector3_new(e[0], e[1], e[2])
                       [] n = 4 -> TVector4_new(e[0], e[1], e[2], e[3]))

CallVecZero ==
    /\ Idle
    /\ \E n \in Dims :
        /\ op' = "vec_zero"
        /\ args' = [N |-> n]
        /\ out' = Ok(vec_zero(n))

CallVecIsZero ==
    /\ Idle
    /\ \E n \in Dims : \E e \in Inputs(n) :
        /\ op' = "vec_is_zero"
        /\ args' = [N |-> n, v |-> TVector(n, e)]
        /\ out' = Ok(vec_is_zero(TVector(n, e)))

CallVecAdd ==
    /\ Idle
    /\ \E n \in Dims : \E x \in Inputs(n), y \in Inputs(n) :
        /\ op' = "vec_add"
        /\ args' = [N |-> n, a |-> TVector(n, x), b |-> TVector(n, y)]
        /\ out' = vec_add(TVector(n, x), TVector(n, y))

CallVecSub ==
    /\ Idle
    /\ \E n \in Dims : \E x \in Inputs(n), y \in Inputs(n) :
        /\ op' = "vec_sub"
        /\ args' = [N |-> n, a |-> TVector(n, x), b |-> TVector(n, y)]
        /\ out' = vec_sub(TVector(n, x), TVector(n, y))

CallVecMul ==
    /\ Idle
    /\ \E n \in Dims : \E x \in Inputs(n), y \in Inputs(n) :
        /\ op' = "vec_mul"
        /\ args' = [N |-> n, a |-> TVector(n, x), b |-> TVector(n, y)]
        /\ out' = vec_mul(TVector(n, x), TVector(n, y))

CallVecDiv ==
    /\ Idle
    /\ \E n \in Dims : \E x \in Inputs(n), y \in Inputs(n) :
        /\ op' = "vec_div"
        /\ args' = [N |-> n, a |-> TVector(n, x), b |-> TVector(n, y)]
        /\ out' = vec_div(TVector(n, x), TVector(n, y))

\* (a + b) - b
CallVecAddSub ==
    /\ Idle
    /\ \E n \in Dims : \E x \in Inputs(n), y \in Inputs(n) :
        /\ op' = "vec_add_sub"
        /\ args' = [N |-> n, a |-> TVector(n, x), b |-> TVector(n, y)]
        /\ out' = vec_sub(vec_add(TVector(n, x), TVector(n, y)).val, TVector(n, y))

CallVecIndex ==
    /\ Idle
    /\ \E n \in Dims : \E e \in Inputs(n), ind \in 0..(MaxDim + 1) :
        /\ op' = "vec_index"
        /\ args' = [N |-> n, v |-> TVector(n, e), ind |-> ind]
        /\ out' = vec_index(TVector(n, e), ind)

CallMatNew ==
    /\ Idle
    /\ \E n \in NewSizes : \E e \in Inputs(n * n) :
        /\ op' = "mat_new"
        /\ args' = [M |-> n, N |-> n, arr |-> e]
        /\ out' = Ok(CASE n = 2 -> TMatrix2_new(e[0], e[1], e[2], e[3])
                       [] n = 3 -> TMatrix3_new(e[0], e[1], e[2], e[3], e[4], e[5],
                                                e[6], e[7], e[8])
                       [] n = 4 -> TMatrix4_new(e[0], e[1], e[2], e[3], e[4], e[5],
                                                e[6], e[7], e[8], e[9], e[10], e[11],
                                                e[12], e[13], e[14], e[15]))

\* from_array takes a slice: its length is not tied to M * N by the type
CallMatFromArray ==
    /\ Idle
    /\ \E m \in Dims, n \in Dims : \E len \in 0..(m * n + 1) : \E arr \in Inputs(len) :
        /\ op' = "mat_from_array"
        /\ args' = [M |-> m, N |-> n, arr |-> arr]
        /\ out' = from_array(m, n, arr)

\* from_array(arr)[(ind0, ind1)]
CallMatIndex ==
    /\ Idle
    /\ \E m \in Dims, n \in Dims : \E arr \in Inputs(m * n), ind0 \in 0..MaxDim, ind1 \in 0..MaxDim :
        /\ op' = "mat_index"
        /\ args' = [M |-> m, N |-> n, arr |-> arr, m |-> MatOf(m, n, arr),
                    ind0 |-> ind0, ind1 |-> ind1]
        /\ out' = mat_index(MatOf(m, n, arr), ind0, ind1)

CallMatAdd ==
    /\ Idle
    /\ \E m \in Dims, n \in Dims : \E x \in Inputs(m * n), y \in Inputs(m * n) :
        /\ op' = "mat_add"
        /\ args' = [M |-> m, N |-> n, a |-> MatOf(m, n, x), b |-> MatOf(m, n, y)]
        /\ out' = mat_add(MatOf(m, n, x), MatOf(m, n, y))

CallMatSub ==
    /\ Idle
    /\ \E m \in Dims, n \in Dims : \E x \in Inputs(m * n), y \in Inputs(m * n) :
        /\ op' = "mat_sub"
        /\ args' = [M |-> m, N |-> n, a |-> MatOf(m, n, x), b |-> MatOf(m, n, y)]
        /\ out' = mat_sub(MatOf(m, n, x), MatOf(m, n, y))

\* (a + b) - b
CallMatAddSub ==
    /\ Idle
    /\ \E m \in Dims, n \in Dims : \E x \in Inputs(m * n), y \in Inputs(m * n) :
        /\ op' = "mat_add_sub"
        /\ args' = [M |-> m, N |-> n, a |-> MatOf(m, n, x), b |-> MatOf(m, n, y)]
        /\ out' = mat_sub(mat_add(MatOf(m, n, x), MatOf(m, n, y)).val, MatOf(m, n, y))

\* from_array(arr) * v
CallMatMulVec ==
    /\ Idle
    /\ \E m \in Dims, n \in Dims : \E arr \in Inputs(m * n), e \in Inputs(n) :
        /\ op' = "mat_mul_vec"
        /\ args' = [M |-> m, N |-> n, arr |-> arr, m |-> MatOf(m, n, arr),
                    v |-> TVector(n, e)]
        /\ out' = mat_mul_vec(MatOf(m, n, arr), TVector(n, e))

\* from_array(larr) * from_array(rarr)
CallMatMulMat ==
    /\ Idle
    /\ \E l \in Dims, m \in Dims, n \in Dims : \E larr \in Inputs(l * m), rarr \in Inputs(m * n) :
        /\ op' = "mat_mul_mat"
        /\ args' = [L |-> l, M |-> m, N |-> n, larr |-> larr, rarr |-> rarr,
                    left |-> MatOf(l, m, larr), right |-> MatOf(m, n, rarr)]
        /\ out' = mat_mul_mat(MatOf(l, m, larr), MatOf(m, n, rarr))

\* the caller takes the result (or the panic is observed) and moves on
Return ==
    /\ ~Idle
    /\ op' = "none"
    /\ args' = [N |-> 0]
    /\ out' = Ok(0)

Next ==
    \/ CallVecNew
    \/ CallVecZero
    \/ CallMatNew
    \/ CallMatFromArray
    \/ CallVecIsZero
    \/ CallVecAdd
    \/ CallVecSub
    \/ CallVecMul
    \/ CallVecDiv
    \/ CallVecAddSub
    \/ CallVecIndex
    \/ CallMatIndex
    \/ CallMatAdd
    \/ CallMatSub
    \/ CallMatAddSub
    \/ CallMatMulVec
    \/ CallMatMulMat
    \/ Return

Spec == Init /\ [][Next]_vars

(***************************************************************************)
(* Properties.                                                             *)
(***************************************************************************)
\* the textbook sum f[0] + ... + f[n-1]
RECURSIVE Sigma(_, _)
Sigma(f, n) == IF n = 0 THEN 0 ELSE Sigma(f, n - 1) + f[n - 1]

\* C1 (as stated): indexing an M x N matrix with (row, col), row < M and
\* col < N, succeeds and returns the element stored at data[col][row].
C1_RowColReadsDataColRow ==
    (op = "mat_index" /\ args.ind0 < args.M /\ args.ind1 < args.N)
        => (~out.trap /\ out.val = args.m.data[args.ind1][args.ind0])

\* C1 (amended): indexing an M x N matrix with (i0, i1), i0 < N and i1 < M,
\* succeeds and returns the element stored at data[i0][i1]: the first
\* component selects the column, the second the row.
C1_IndexReadsDataInd0Ind1 ==
    (op = "mat_index" /\ args.ind0 < args.N /\ args.ind1 < args.M)
        => out = Ok(args.m.data[args.ind0][args.ind1])

C1_Witness ==
    /\ op = "mat_index"
    /\ args.M = 3 /\ args.N = 2
    /\ args.ind0 = 1 /\ args.ind1 = 2
    /\ ~out.trap
    /\ out.val # 0

\* C2 (as stated): from_array(arr) indexed at (row, col), row < M and
\* col < N, returns arr[row * N + col].
C2_RoundTripRowCol ==
    (op = "mat_index" /\ args.ind0 < args.M /\ args.ind1 < args.N)
        => (~out.trap /\ out.val = args.arr[args.ind0 * args.N + args.ind1])

\* C2 (amended): from_array(arr) indexed at (col, row), row < M and col < N,
\* returns arr[row * N + col]; for [1, 2, 3, 4]: (0,0)=1, (0,1)=3, (1,0)=2,
\* (1,1)=4.
C2_RoundTripColRow ==
    (op = "mat_index" /\ args.ind0 < args.N /\ args.ind1 < args.M)
        => out = Ok(args.arr[args.ind1 * args.N + args.ind0])

C2_Witness ==
    /\ op = "mat_index"
    /\ args.M = 2 /\ args.N = 2
    /\ args.arr = Arr0(<<1, 2, 3, 4>>)
    /\ args.ind0 = 0 /\ args.ind1 = 1
    /\ out = Ok(3)

\* C3: an M x N matrix times a length-N vector is a length-M vector whose
\* element i is the sum over j of matrix(i, j) * v[j], matrix(i, j) being the
\* value supplied at row-major position i * N + j and stored at data[j][i].
C3_MatMulVec ==
    op = "mat_mul_vec" =>
        /\ ~out.trap
        /\ out.val.N = args.M
        /\ DOMAIN out.val.data = Range(args.M)
        /\ \A i \in Range(args.M), j \in Range(args.N) :
              args.m.data[j][i] = args.arr[i * args.N + j]
        /\ \A i \in Range(args.M) :
              out.val.data[i] =
                  Sigma([j \in Range(args.N) |->
                            args.arr[i * args.N + j] * args.v.data[j]], args.N)

C3_Witness ==
    /\ op = "mat_mul_vec"
    /\ args.M = 2 /\ args.N = 2
    /\ args.arr = Arr0(<<1, 2, 3, 4>>)
    /\ args.v.data = Arr0(<<5, 6>>)
    /\ out = Ok(TVector(2, Arr0(<<17, 39>>)))

\* C4: an L x M matrix times an M x N matrix is an L x N matrix whose logical
\* (row i, col j) element (stored at data[j][i]) is the sum over k of
\* left(i, k) * right(k, j), the operands' logical elements being the values
\* supplied in row-major order at construction.
C4_MatMulMat ==
    op = "mat_mul_mat" =>
        /\ ~out.trap
        /\ out.val.M = args.L /\ out.val.N = args.N
        /\ DOMAIN out.val.data = Range(args.N)
        /\ \A j \in Range(args.N) : DOMAIN out.val.data[j] = Range(args.L)
        /\ \A i \in Range(args.L), j \in Range(args.N) :
              out.val.data[j][i] =
                  Sigma([k \in Range(args.M) |->
                            args.larr[i * args.M + k] * args.rarr[k * args.N + j]],
                        args.M)

C4_Witness ==
    /\ op = "mat_mul_mat"
    /\ args.L = 2 /\ args.M = 3 /\ args.N = 2
    /\ args.larr = Arr0(<<1, 2, 3, 4, 5, 6>>)
    /\ args.rarr = Arr0(<<7, 8, 9, 10, 11, 12>>)
    /\ out.val.data = Arr0(<<Arr0(<<58, 139>>), Arr0(<<64, 154>>)>>)

\* C5 (as stated): a length-N vector indexed at i >= N traps, and an M x N
\* matrix indexed at (row, col) traps whenever row >= M or col >= N.
C5_TrapsOutsideRowCol ==
    /\ (op = "vec_index" /\ args.ind >= args.N) => out.trap
    /\ (op = "mat_index" /\ (args.ind0 >= args.M \/ args.ind1 >= args.N)) => out.trap

\* C5 (amended): a length-N vector indexed at i >= N traps, and an M x N
\* matrix indexed at (i0, i1) traps whenever i0 >= N or i1 >= M.
C5_TrapsOutsideColRow ==
    /\ (op = "vec_index" /\ args.ind >= args.N) => out.trap
    /\ (op = "mat_index" /\ (args.ind0 >= args.N \/ args.ind1 >= args.M)) => out.trap

C5_Witness ==
    /\ op = "mat_index"
    /\ args.M = 3 /\ args.N = 2
    /\ args.ind0 = 2 /\ args.ind1 = 0
    /\ out.trap

\* the constructors and the arithmetic operators
Total ==
    {"vec_new", "vec_zero", "mat_new", "mat_from_array",
     "vec_add", "vec_sub", "vec_mul", "vec_div", "vec_add_sub",
     "mat_add", "mat_sub", "mat_add_sub", "mat_mul_vec", "mat_mul_mat"}

\* C6 (as stated): every constructor (from_array on an input of any length
\* included) and every arithmetic operator returns a value and never traps.
C6_NeverTraps ==
    op \in Total => ~out.trap

\* C6 (amended): a constructor or arithmetic operator traps exactly when it
\* is from_array on an input of fewer than M * N values, or vector / with a
\* zero divisor element (integer element type); every other call returns a
\* value.
C6_TrapsExactlyWhen ==
    op \in Total =>
        (out.trap <=>
            \/ op = "mat_from_array" /\ ALen(args.arr) < args.M * args.N
            \/ op = "vec_div" /\ \E i \in Range(args.N) : args.b.data[i] = 0)

C6_Witness ==
    /\ op = "mat_from_array"
    /\ args.M = 2 /\ args.N = 3
    /\ ALen(args.arr) = 5
    /\ out.trap

\* C7: for length-N vectors a, b and every i < N: (a+b)[i] = a[i]+b[i],
\* (a-b)[i] = a[i]-b[i], (a*b)[i] = a[i]*b[i] and, when no b[i] is zero,
\* (a/b)[i] = a[i]/b[i]; the result has length N.
C7_ElementWise ==
    /\ op \in {"vec_add", "vec_sub", "vec_mul"} =>
          /\ ~out.trap
          /\ out.val.N = args.N
          /\ DOMAIN out.val.data = Range(args.N)
          /\ \A i \in Range(args.N) :
                out.val.data[i] =
                    CASE op = "vec_add" -> args.a.data[i] + args.b.data[i]
                      [] op = "vec_sub" -> args.a.data[i] - args.b.data[i]
                      [] op = "vec_mul" -> args.a.data[i] * args.b.data[i]
    /\ (op = "vec_div" /\ \A i \in Range(args.N) : args.b.data[i] # 0) =>
          /\ ~out.trap
          /\ out.val.N = args.N
          /\ DOMAIN out.val.data = Range(args.N)
          /\ \A i \in Range(args.N) :
                out.val.data[i] = ScalarDiv(args.a.data[i], args.b.data[i])

C7_Witness ==
    /\ op = "vec_div"
    /\ args.a.data = Arr0(<<1, 3, 4>>)
    /\ args.b.data = Arr0(<<3, 2, 1>>)
    /\ out = Ok(TVector(3, Arr0(<<0, 1, 4>>)))

\* C8: for same-length vectors and same-shape matrices a, b over an integer
\* element type, (a + b) - b = a exactly.
C8_AddSubRoundTrip ==
    op \in {"vec_add_sub", "mat_add_sub"} => out = Ok(args.a)

C8_Witness ==
    /\ op = "mat_add_sub"
    /\ args.M = 2 /\ args.N = 3
    /\ args.a.data[2][1] # 0
    /\ args.b.data[2][1] # 0
    /\ args.b.data[0][0] # args.b.data[2][1]
    /\ out = Ok(args.a)

\* C9: zero() is a length-N vector of additive identities on which
\* is_zero() holds, and is_zero() on any vector is true iff every element
\* is the additive identity.
C9_Zero ==
    /\ op = "vec_zero" =>
          /\ ~out.trap
          /\ out.val.N = args.N
          /\ DOMAIN out.val.data = Range(args.N)
          /\ \A i \in Range(args.N) : out.val.data[i] = 0
          /\ vec_is_zero(out.val)
    /\ op = "vec_is_zero" =>
          out = Ok(\A i \in Range(args.N) : args.v.data[i] = 0)

C9_Witness ==
    /\ op = "vec_is_zero"
    /\ args.N = 3
    /\ args.v.data[0] = 0 /\ args.v.data[1] # 0 /\ args.v.data[2] = 0
    /\ out = Ok(FALSE)

\* the matrix holds the k-th value of arr, k = row * N + col, at data[col][row]
Placed(mat, m, n, arr) ==
    /\ mat.M = m /\ mat.N = n
    /\ DOMAIN mat.data = Range(n)
    /\ \A col \in Range(n) :
          /\ DOMAIN mat.data[col] = Range(m)
          /\ \A row \in Range(m) : mat.data[col][row] = arr[row * n + col]

\* C10: every constructor stores the k-th supplied value, k = row * N + col,
\* at data[col][row] (from_array for every M, N; new for 2x2, 3x3, 4x4), so
\* new(e0, ...) is the same matrix as from_array([e0, ...]).
C10_Placement ==
    /\ (op = "mat_from_array" /\ ALen(args.arr) = args.M * args.N) =>
          (~out.trap /\ Placed(out.val, args.M, args.N, args.arr))
    /\ op = "mat_new" =>
          /\ ~out.trap
          /\ Placed(out.val, args.N, args.N, args.arr)
          /\ out = from_array(args.N, args.N, args.arr)

C10_Witness ==
    /\ op = "mat_new"
    /\ args.N = 4
    /\ \A k \in Range(16) : args.arr[k] = k + 1
    /\ out.val.data[3] = Arr0(<<4, 8, 12, 16>>)

====
